---- MODULE Spec2Model ----
(***************************************************************************)
(* State machine of the udstunnel server: the accept loop                  *)
(* (TunnelServer::run), the per-connection task (Connection::process),     *)
(* the relay session (RelayConnection::run) with its two pump tasks, the   *)
(* shared counters (Stats) and the stop events (Event).                    *)
(*                                                                         *)
(* One step of the model is the code a task runs between two suspension    *)
(* points (.await); the tail of RelayConnection::run is split further,     *)
(* one step per call.  Stats counters are AtomicU64; the model keeps them  *)
(* as unbounded integers, so a fetch_sub below zero (a wrap to 2^64-1 in   *)
(* the program) shows as a negative value.                                 *)
(***************************************************************************)
EXTENDS Integers, Sequences, FiniteSets, TLC

\* ---- bounds of the model ----
MaxConn == 2        \* connections the listener accepts
MaxBytes == 2       \* bytes read by all the pumps together
MaxChunk == 2       \* largest number of bytes one read returns
MaxByte == 1        \* the bytes on the wire are 1..MaxByte
MaxHandles == 3     \* handles of the process event: the one of Event::new() and its clones
MaxSets == 2        \* calls of set()

\* ---- program constants ----
PumpBufLen == 1024  \* vec![0; 1024] of each pump
CommandBufLen == 128                          \* [0u8; 128] of get_command
HANDSHAKE_V1 == <<90, 77, 71, 66, 165, 1, 0>> \* b"\x5AMGB\xA5\x01\x00"
TICKET_LENGTH == 48
SECRET_LENGTH == 64
COMMAND_LENGTH == 4
COMMAND_OPEN == <<79, 80, 69, 78>>            \* "OPEN"
COMMAND_TEST == <<84, 69, 83, 84>>            \* "TEST"
COMMAND_STATS == <<83, 84, 65, 84>>           \* "STAT"
COMMAND_INFO == <<73, 78, 70, 79>>            \* "INFO"
RESPONSE_ERROR_COMMAND == "ERROR_COMMAND"
RESPONSE_ERROR_TIMEOUT == "TIMEOUT"
RESPONSE_FORBIDDEN == "FORBIDDEN"
RESPONSE_ERROR_CONNECT == "ERROR_CONNECT"
RESPONSE_OK == "OK"
\* consts.rs has no RESPONSE_ERROR_HANDSHAKE; the token is the one the
\* protocol description gives for a handshake error
RESPONSE_ERROR_HANDSHAKE == "ERROR_HANDSHAKE"

Conns == 1..MaxConn
Pumps == {"server_to_client", "client_to_server"}
Bytes == 1..MaxByte
Chunks == UNION {[1..n -> Bytes] : n \in 1..MaxChunk}

VARIABLES
    stop_event,              \* value of the process Event (main.rs)
    listening,               \* TunnelServer::run is in its accept loop
    total_connections,       \* Stats of the process (global_stats)
    concurrent_connections,
    sent_bytes,
    recv_bytes,
    cpc,                     \* position of each connection task
    command,                 \* Command read by get_command
    out,                     \* what the server wrote to the client before the pumps
    uds,                     \* requests made to the UDSApiProvider
    uds_response,            \* reply of get_ticket, as RelayConnection::run holds it
    notify_ticket,           \* RelayConnection.notify_ticket
    local_stats,             \* RelayConnection.local_stats
    local_tasks_stopper,     \* value of the session's local Event
    ppc,                     \* position of each pump task
    buf,                     \* the Vec<u8> of each pump
    pending,                 \* n of the chunk a pump is writing
    src_read,                \* bytes each pump has read from its source half
    dst_written,             \* bytes each pump has written to its destination half
    events,                  \* per session, in order: "inc" add_concurrent_connection,
                             \* "dec" sub_concurrent_connection, "notify_end" the call of notify_end
    config,                  \* the fields allow and secret of the loaded Config
    peer_ip,                 \* ip of the peer of each accepted stream
    hs_read,                 \* result of the handshake read_exact, with the bytes that arrived
    cmd_read,                \* result of get_command's read, with &buf[..size]
    connects,                \* TcpStream::connect calls made for each connection
    werr,                    \* a write_all of the Stats arm returned Err
    stats_out,               \* bytes of the counters line written to the client
    EVENT_ID,                \* the static AtomicU64 of event.rs
    handle,                  \* each Event handle of the process event: not made, alive, dropped
    wakers,                  \* State.wakers, the map from waker_id to Waker
    polled,                  \* result of the last poll of each handle
    woken,                   \* wake() calls made on the Waker each handle registered
    notified,                \* the task of the handle is scheduled to poll it again
    set_pc,                  \* position of the set() call made through each handle
    awakers,                 \* the Vec<Waker> local to that call
    set_calls,               \* calls of set() made
    set_ok,                  \* calls of set() that returned Ok(())
    enc_command,             \* a Command value
    enc_text,                \* what Display wrote for it
    dec_result,              \* what from_str returned for that text
    supervisor,              \* position of main
    drain_elapsed            \* seconds since main began to wait for the sessions

vars == <<stop_event, listening, total_connections, concurrent_connections,
          sent_bytes, recv_bytes, cpc, command, out, uds, uds_response, notify_ticket,
          local_stats, local_tasks_stopper, ppc, buf, pending, src_read,
          dst_written, events, config, peer_ip, hs_read, cmd_read, connects,
          werr, stats_out, EVENT_ID, handle, wakers, polled, woken, notified,
          set_pc, awakers, set_calls, set_ok, enc_command, enc_text, dec_result,
          supervisor, drain_elapsed>>

stats_vars == <<total_connections, concurrent_connections, sent_bytes, recv_bytes>>
event_vars == <<EVENT_ID, handle, wakers, polled, woken, notified, set_pc, awakers,
                set_calls, set_ok>>
codec_vars == <<enc_command, enc_text, dec_result>>
main_vars == <<supervisor, drain_elapsed>>
aux_vars == <<event_vars, codec_vars, main_vars>>
relay_vars == <<uds_response, notify_ticket, local_stats, local_tasks_stopper, events>>
pump_vars == <<ppc, buf, pending, src_read, dst_written>>
conn_vars == <<config, peer_ip, hs_read, cmd_read, connects, werr, stats_out>>

\* ---- Stats (stats.rs) ----
New_stats == [recv_bytes |-> 0, sent_bytes |-> 0]
\* a bug: chunks are counted, not bytes
add_recv_bytes_chunks(v, bytes) == v + 1
add_recv_bytes(v, bytes) == v + bytes
add_send_bytes(v, bytes) == v + bytes
\* a bug: the connection is counted twice
add_global_connection_twice(v) == v + 2
add_global_connection(v) == v + 1
add_concurrent_connection(v) == v + 1
\* a bug: the decrement is lost
sub_concurrent_connection_lost(v) == v
sub_concurrent_connection(v) == v - 1

\* ---- Event (event.rs) ----
\* a bug: set() leaves the value as it is
Event_set_noop(value) == value
Event_set(value) == TRUE

\* waker_id of the handles: the values EVENT_ID.fetch_add(1) has returned
Ids == 0..(MaxHandles - 1)

\* HashMap::new()
No_wakers == [id \in {} |-> id]

\* cx.waker().clone(): the waker of the task that polls the handle
Waker(id) == id

\* a bug: a poll never sees the value
poll_ready_never(value) == FALSE

\* poll: if state.value { Poll::Ready(()) }
poll_ready(value) == value

\* state.wakers.insert(self.waker_id, waker)
wakers_insert(m, id, w) == [k \in (DOMAIN m) \cup {id} |-> IF k = id THEN w ELSE m[k]]

\* a bug: drop leaves the entry in the map
wakers_remove_none(m, id) == m

\* state.wakers.remove(&self.waker_id)
wakers_remove(m, id) == [k \in (DOMAIN m) \ {id} |-> m[k]]

\* a bug: only one of the wakers is collected
drained_one(m) == IF DOMAIN m = {} THEN {} ELSE {m[CHOOSE k \in DOMAIN m : TRUE]}

\* state.wakers.drain().map(|(_, waker)| waker).collect()
drained(m) == {m[k] : k \in DOMAIN m}

\* a bug: the wakers are collected and stay in the map
wakers_after_drain_kept(m) == m

\* the map after drain()
wakers_after_drain(m) == No_wakers

\* ---- the Vec<u8> of a pump: `zeros` leading 0 bytes, then `tail` ----
New_buf == [zeros |-> PumpBufLen, tail |-> <<>>]
buf_len(b) == b.zeros + Len(b.tail)
buf_at(b, i) == IF i <= b.zeros THEN 0 ELSE b.tail[i - b.zeros]
\* AsyncReadExt::read_buf on a Vec<u8>: the bytes read are appended
read_buf(b, chunk) == [b EXCEPT !.tail = @ \o chunk]
\* &buf[..n]
buf_slice(b, n) == [i \in 1..n |-> buf_at(b, i)]

\* ---- bytes and strings: a byte is its value 0..255, a &[u8] or a &str the
\* sequence of its bytes ----
Rep(n, b) == [i \in 1..n |-> b]
With(s, i, b) == [s EXCEPT ![i] = b]
\* u8::is_ascii_alphanumeric / char::is_ascii_alphanumeric: 0-9, A-Z, a-z
is_ascii_alphanumeric(b) == (b \in 48..57) \/ (b \in 65..90) \/ (b \in 97..122)
is_continuation(b) == b \in 128..191

\* the continuation bytes a leading byte asks for; -1 for a byte that cannot lead
utf8_width(b) ==
    IF b < 128 THEN 0
    ELSE IF b \in 194..223 THEN 1
    ELSE IF b \in 224..239 THEN 2
    ELSE IF b \in 240..244 THEN 3
    ELSE -1

\* String::from_utf8(bytes).is_ok(): the first byte leads, and every leading
\* byte is followed by exactly the continuation bytes it asks for (the second
\* byte in the narrower range after E0, ED, F0 and F4)
utf8_valid(bytes) ==
    /\ Len(bytes) > 0 => ~is_continuation(bytes[1])
    /\ \A i \in 1..Len(bytes) :
        LET b == bytes[i]
            w == utf8_width(b)
        IN  is_continuation(b)
            \/ /\ w >= 0
               /\ i + w <= Len(bytes)
               /\ \A k \in 1..w : is_continuation(bytes[i + k])
               /\ i + w < Len(bytes) => ~is_continuation(bytes[i + w + 1])
               /\ b = 224 => bytes[i + 1] >= 160
               /\ b = 237 => bytes[i + 1] <= 159
               /\ b = 240 => bytes[i + 1] >= 144
               /\ b = 244 => bytes[i + 1] <= 143

\* str::is_char_boundary(index)
is_char_boundary(s, index) ==
    \/ index = 0
    \/ index = Len(s)
    \/ index < Len(s) /\ ~is_continuation(s[index + 1])

\* ---- Command (types.rs) ----
No_command == [kind |-> "none", arg |-> <<>>]
Open(ticket) == [kind |-> "Open", arg |-> ticket]
Test == [kind |-> "Test", arg |-> <<>>]
Stats(secret) == [kind |-> "Stats", arg |-> secret]
Unknown == [kind |-> "Unknown", arg |-> <<>>]
\* what a call of the parser gives: Ok(command), Err(message), or a panic
ParseOk(cmd) == [res |-> "Ok", command |-> cmd]
ParseErr == [res |-> "Err", command |-> No_command]
ParsePanic == [res |-> "panic", command |-> No_command]

\* a bug: a payload shorter than the required length is accepted
valid_payload_short(payload, length) ==
    /\ Len(payload) <= length
    /\ \A i \in 1..Len(payload) : is_ascii_alphanumeric(payload[i])
\* ticket.len() == TICKET_LENGTH && ticket.chars().all(is_ascii_alphanumeric)
\* (and the same for the secret); a char of more than one byte is not ASCII,
\* so the test on chars is the test on bytes
valid_payload(payload, length) ==
    /\ Len(payload) = length
    /\ \A i \in 1..Len(payload) : is_ascii_alphanumeric(payload[i])

\* Command::from_str; &s[..COMMAND_LENGTH] panics when 4 is inside a char
from_str(s) ==
    IF Len(s) < COMMAND_LENGTH THEN ParseErr
    ELSE IF ~is_char_boundary(s, COMMAND_LENGTH) THEN ParsePanic
    ELSE LET tag == SubSeq(s, 1, COMMAND_LENGTH)
             rest == SubSeq(s, COMMAND_LENGTH + 1, Len(s))
         IN  IF tag = COMMAND_OPEN
             THEN IF valid_payload(rest, TICKET_LENGTH) THEN ParseOk(Open(rest)) ELSE ParseErr
             ELSE IF tag = COMMAND_TEST THEN ParseOk(Test)
             ELSE IF tag = COMMAND_STATS \/ tag = COMMAND_INFO
             THEN IF valid_payload(rest, SECRET_LENGTH) THEN ParseOk(Stats(rest)) ELSE ParseErr
             ELSE ParseOk(Unknown)

\* Command::from_bytes: String::from_utf8(bytes.to_vec()).unwrap(), then from_str
from_bytes(bytes) == IF utf8_valid(bytes) THEN from_str(bytes) ELSE ParsePanic

\* impl Display for Command: write!(f, "OPEN {}", ticket), "TEST",
\* write!(f, "STAT {}", secret), "UNKNOWN"
fmt(cmd) ==
    IF cmd.kind = "Open" THEN <<79, 80, 69, 78, 32>> \o cmd.arg
    ELSE IF cmd.kind = "Test" THEN <<84, 69, 83, 84>>
    ELSE IF cmd.kind = "Stats" THEN <<83, 84, 65, 84, 32>> \o cmd.arg
    ELSE <<85, 78, 75, 78, 79, 87, 78>>

\* ---- UDSApiProvider (udsapi.rs) ----
\* the ticket of the OPEN command: 48 characters out of '9', 'A' and 'z'
Ticket == [i \in 1..TICKET_LENGTH |-> IF i % 3 = 0 THEN 57 ELSE IF i % 3 = 1 THEN 65 ELSE 122]
Hosts == {"backend", "#close"}     \* an address, a directive
\* the notify ticket of a reply: none, or the bytes of "notify"
NotifyTicket == <<110, 111, 116, 105, 102, 121>>
Notifies == {<<>>, NotifyTicket}
No_response == [ok |-> FALSE, host |-> "", notify |-> <<>>]
TicketReplies == {No_response} \cup [ok : {TRUE}, host : Hosts, notify : Notifies]
starts_with_hash(host) == host = "#close"
\* a call of UDSApiProvider::request(ticket, message, query_params); op names
\* the method that made it, sent and recv are the numbers its query carries
Request(op, ticket, message, query_params, sent, recv) ==
    [op |-> op, ticket |-> ticket, message |-> message, query_params |-> query_params,
     sent |-> sent, recv |-> recv]

\* self.src = format!("{}:{}", src_peer_addr.ip(), src_peer_addr.port())
src_of(ip) == [ip |-> ip, port |-> "port"]

\* a bug: the request carries a query
get_ticket_with_query(ticket, ip) == Request("get_ticket", ticket, ip, "Some", 0, 0)

\* UDSApiProvider::get_ticket: self.request(ticket, &ip, None)
get_ticket(ticket, ip) == Request("get_ticket", ticket, ip, "None", 0, 0)

\* UDSApiProvider::notify_end: self.request(ticket, "stop",
\* Some("sent={}&recv={}&elapsed={}"))
notify_end(ticket, sent, recv) == Request("notify_end", ticket, "stop", "Some", sent, recv)

\* ---- Config (config/mod.rs) and the peers ----
\* the secret of the configuration: 64 characters out of '0', 'Z' and 'a'
Secret == [i \in 1..SECRET_LENGTH |-> IF i % 3 = 0 THEN 48 ELSE IF i % 3 = 1 THEN 90 ELSE 97]
WrongSecret == With(Secret, SECRET_LENGTH, 98)
Ips == {"ip1", "ip2"}
Configs == [allow : {{}, {"ip1"}}, secret : {Secret}]
\* the counters when the listener starts: a fresh Stats, or one a test has
\* loaded through add_concurrent_connection, add_global_connection,
\* add_send_bytes and add_recv_bytes
Preloads == {[concurrent |-> 0, total |-> 0, sent |-> 0, recv |-> 0],
             [concurrent |-> 749, total |-> 946, sent |-> 13804, recv |-> 96432]}

\* ---- what the reads of a connection return ----
No_read == [res |-> "none", bytes |-> <<>>]
ReadOk(bytes) == [res |-> "ok", bytes |-> bytes]
\* read_exact: Ok with HANDSHAKE_V1.len() bytes; the deadline or an error
\* (the peer closed) after fewer bytes
HandshakeReads(full, partial) ==
    {ReadOk(b) : b \in full}
        \cup {[res |-> r, bytes |-> b] : r \in {"timeout", "ioerr"}, b \in partial}
\* read: Ok(size) with &buf[..size], the deadline, or an error
CommandReads(frames) ==
    {ReadOk(f) : f \in frames} \cup {[res |-> r, bytes |-> <<>>] : r \in {"timeout", "ioerr"}}

\* seven bytes the client can send: the handshake, the handshake with one byte
\* changed, and the handshake one byte late or one byte early
Handshakes ==
    {HANDSHAKE_V1}
        \cup {With(HANDSHAKE_V1, i, (HANDSHAKE_V1[i] + 1) % 256) : i \in 1..Len(HANDSHAKE_V1)}
        \cup {<<0>> \o SubSeq(HANDSHAKE_V1, 1, Len(HANDSHAKE_V1) - 1),
              Tail(HANDSHAKE_V1) \o <<0>>}
HandshakePrefixes == {SubSeq(HANDSHAKE_V1, 1, n) : n \in {0, 3, Len(HANDSHAKE_V1) - 1}}

\* command frames a client can send
InvalidCommand == <<73, 78, 86, 65, 76, 73, 68, 95, 67, 79, 77, 77, 65, 78, 68>>  \* "INVALID_COMMAND"
\* the characters next to the digits and the letters: / : @ [ ` {
NotAlphanumeric == {47, 58, 64, 91, 96, 123}
\* a tag with the payload cut or extended to every length up to one more than
\* the payload's, and with one character of the payload replaced
FramesOf(tag, payload) ==
    {tag \o SubSeq(payload \o <<120>>, 1, n) : n \in 0..(Len(payload) + 1)}
        \cup {tag \o With(payload, i, b) : i \in 1..Len(payload), b \in NotAlphanumeric}
Frames ==
    FramesOf(COMMAND_OPEN, Ticket)
        \cup FramesOf(COMMAND_STATS, Secret)
        \cup FramesOf(COMMAND_INFO, Secret)
        \cup {COMMAND_OPEN \o SubSeq(Ticket, 1, TICKET_LENGTH - 2) \o <<195, 169>>,  \* U+00E9
              COMMAND_OPEN \o With(Ticket, TICKET_LENGTH, 255),                \* not UTF-8
              COMMAND_OPEN \o Rep(CommandBufLen - COMMAND_LENGTH, 120),
              <<111, 112, 101, 110>> \o Ticket,                                \* "open"
              COMMAND_TEST,
              COMMAND_TEST \o <<120>>,
              COMMAND_STATS \o WrongSecret,
              InvalidCommand,
              <<84, 69, 83>>,                                                  \* "TES"
              <<97, 98, 99, 195, 169>>,                                        \* "abc" and U+00E9
              <<195, 169, 195, 169, 120>>,                                     \* U+00E9 twice and "x"
              <<>>}

\* the inputs of Spec: the connections of the listener, one read of each kind
SpecInputs ==
    [conns |-> Conns,
     ips |-> {"ip1"},
     handshakes |-> HandshakeReads({HANDSHAKE_V1, With(HANDSHAKE_V1, Len(HANDSHAKE_V1), 1)}, {<<>>}),
     commands |-> CommandReads({COMMAND_OPEN \o Ticket, COMMAND_TEST, COMMAND_STATS \o Secret,
                                InvalidCommand, <<84, 69, 83>>}),
     replies |-> TicketReplies]

\* the inputs of ProtoSpec: one connection, every handshake and frame above
ProtoInputs ==
    [conns |-> {1},
     ips |-> Ips,
     handshakes |-> HandshakeReads(Handshakes, HandshakePrefixes),
     commands |-> CommandReads(Frames),
     replies |-> TicketReplies]

InitConnections ==
    /\ stop_event = FALSE
    /\ listening = TRUE
    /\ cpc = [c \in Conns |-> "free"]
    /\ command = [c \in Conns |-> No_command]
    /\ out = [c \in Conns |-> <<>>]
    /\ uds = [c \in Conns |-> <<>>]
    /\ uds_response = [c \in Conns |-> No_response]
    /\ notify_ticket = [c \in Conns |-> <<>>]
    /\ local_stats = [c \in Conns |-> New_stats]
    /\ local_tasks_stopper = [c \in Conns |-> FALSE]
    /\ ppc = [c \in Conns |-> [p \in Pumps |-> "none"]]
    /\ buf = [c \in Conns |-> [p \in Pumps |-> New_buf]]
    /\ pending = [c \in Conns |-> [p \in Pumps |-> 0]]
    /\ src_read = [c \in Conns |-> [p \in Pumps |-> <<>>]]
    /\ dst_written = [c \in Conns |-> [p \in Pumps |-> <<>>]]
    /\ events = [c \in Conns |-> <<>>]
    /\ peer_ip = [c \in Conns |-> ""]
    /\ hs_read = [c \in Conns |-> No_read]
    /\ cmd_read = [c \in Conns |-> No_read]
    /\ connects = [c \in Conns |-> 0]
    /\ werr = [c \in Conns |-> FALSE]
    /\ stats_out = [c \in Conns |-> <<>>]

\* Event::new() in main: the first handle, value false, no wakers
InitEvent ==
    /\ EVENT_ID = 1
    /\ handle = [id \in Ids |-> IF id = 0 THEN "alive" ELSE "none"]
    /\ wakers = No_wakers
    /\ polled = [id \in Ids |-> "none"]
    /\ woken = [id \in Ids |-> 0]
    /\ notified = [id \in Ids |-> FALSE]
    /\ set_pc = [id \in Ids |-> "idle"]
    /\ awakers = [id \in Ids |-> {}]
    /\ set_calls = 0
    /\ set_ok = 0

\* no Command has been formatted
No_result == [res |-> "none", command |-> No_command]

\* main awaits a signal in its select!
InitMain ==
    /\ supervisor = "select"
    /\ drain_elapsed = 0

InitCodec ==
    /\ enc_command = No_command
    /\ enc_text = <<>>
    /\ dec_result = No_result

\* Stats::new() and the default Config: allow and secret are empty
Init ==
    /\ InitConnections
    /\ InitEvent
    /\ InitMain
    /\ InitCodec
    /\ total_connections = 0
    /\ concurrent_connections = 0
    /\ sent_bytes = 0
    /\ recv_bytes = 0
    /\ config = [allow |-> {}, secret |-> <<>>]

\* the listener starts with any of the configurations and counters above
ProtoInit ==
    /\ InitConnections
    /\ InitEvent
    /\ InitMain
    /\ InitCodec
    /\ \E pre \in Preloads :
        /\ total_connections = pre.total
        /\ concurrent_connections = pre.concurrent
        /\ sent_bytes = pre.sent
        /\ recv_bytes = pre.recv
    /\ config \in Configs

\* ---- main.rs: a signal arrives, stop_event.set() ----
SetStop ==
    /\ ~stop_event
    /\ stop_event' = Event_set(stop_event)
    /\ supervisor' = "drain"
    /\ UNCHANGED <<event_vars, codec_vars, drain_elapsed, conn_vars, listening, stats_vars, cpc, command, out, uds, relay_vars, pump_vars>>

\* a bug: the stop branch of the select! goes on with the loop
ListenerStop_continue ==
    /\ listening
    /\ poll_ready(stop_event)
    /\ UNCHANGED vars

\* ---- TunnelServer::run, the accept loop ----
\* select!: the stop event is ready, break
ListenerStop ==
    /\ listening
    /\ poll_ready(stop_event)
    /\ listening' = FALSE
    /\ UNCHANGED <<aux_vars, conn_vars, stop_event, stats_vars, cpc, command, out, uds, relay_vars, pump_vars>>

\* select!: accept() returns a stream; Connection::new and tokio::spawn
Accept(c, ip) ==
    /\ listening
    /\ cpc[c] = "free"
    /\ \A d \in Conns : d < c => cpc[d] # "free"
    /\ cpc' = [cpc EXCEPT ![c] = "spawned"]
    /\ peer_ip' = [peer_ip EXCEPT ![c] = ip]
    /\ UNCHANGED <<aux_vars, config, hs_read, cmd_read, connects, werr, stats_out>>
    /\ UNCHANGED <<stop_event, listening, stats_vars, command, out, uds, relay_vars, pump_vars>>

\* ---- Connection::process (server.rs) ----
\* the task returns after writing the token (none for ""): the stream is shut
\* down, or dropped with the task
Close(c, token) ==
    /\ cpc' = [cpc EXCEPT ![c] = "closed"]
    /\ out' = [out EXCEPT ![c] = IF token = "" THEN @ ELSE Append(@, token)]

\* a bug: the panic of one task ends every task (panic = "abort")
Panic_abort(c) ==
    /\ cpc' = [d \in Conns |-> "panicked"]
    /\ out' = out

\* an unwrap() on an Err: the task is aborted by the panic
Panic(c) ==
    /\ cpc' = [cpc EXCEPT ![c] = "panicked"]
    /\ out' = out

\* the task starts: add_global_connection, then the handshake read is awaited
ProcessStart(c) ==
    /\ cpc[c] = "spawned"
    /\ total_connections' = add_global_connection(total_connections)
    /\ cpc' = [cpc EXCEPT ![c] = "handshake"]
    /\ UNCHANGED <<aux_vars, conn_vars, stop_event, listening, concurrent_connections, sent_bytes, recv_bytes,
                   command, out, uds, relay_vars, pump_vars>>

\* a bug: the last byte of the handshake is not compared
handshake_failed_prefix(read) ==
    \/ read.res # "ok"
    \/ SubSeq(read.bytes, 1, Len(HANDSHAKE_V1) - 1) # SubSeq(HANDSHAKE_V1, 1, Len(HANDSHAKE_V1) - 1)
\* handshake.is_err() || buf != consts::HANDSHAKE_V1
handshake_failed(read) == read.res # "ok" \/ read.bytes # HANDSHAKE_V1

\* a bug: a read that ran into the deadline is answered as a wrong handshake
handshake_response_no_timeout(read) == RESPONSE_ERROR_HANDSHAKE
\* if handshake.is_err() { TimeoutError } else { HandshakeError }
handshake_response(read) ==
    IF read.res # "ok" THEN RESPONSE_ERROR_TIMEOUT ELSE RESPONSE_ERROR_HANDSHAKE

\* timeout(handshake_timeout, read_exact(&mut buf)) returns; on a failed
\* handshake the response is written, the stream shut down and the task returns
Handshake(c, read) ==
    /\ cpc[c] = "handshake"
    /\ hs_read' = [hs_read EXCEPT ![c] = read]
    /\ IF handshake_failed(read)
       THEN Close(c, handshake_response(read))
       ELSE /\ cpc' = [cpc EXCEPT ![c] = "upgrade"]
            /\ out' = out
    /\ UNCHANGED <<aux_vars, config, peer_ip, cmd_read, connects, werr, stats_out>>
    /\ UNCHANGED <<stop_event, listening, stats_vars, command, uds, relay_vars, pump_vars>>

\* acceptor.accept(stream).await.unwrap(): a failed TLS handshake panics the task
Upgrade(c, ok) ==
    /\ cpc[c] = "upgrade"
    /\ IF ok
       THEN /\ cpc' = [cpc EXCEPT ![c] = "command"]
            /\ out' = out
       ELSE Panic(c)
    /\ UNCHANGED <<aux_vars, conn_vars, stop_event, listening, stats_vars, command, uds, relay_vars, pump_vars>>

\* a bug: every failed read is answered as a command error
get_command_response_no_timeout(read) == RESPONSE_ERROR_COMMAND
\* get_command, on Err of the read: TimeoutError for TimedOut, else CommandError
get_command_response(read) ==
    IF read.res = "timeout" THEN RESPONSE_ERROR_TIMEOUT ELSE RESPONSE_ERROR_COMMAND

\* TunnelServer::get_command and the match on its result: timeout(command_timeout,
\* read(&mut buf)) returns; Command::from_bytes(&buf[..size])
GetCommand(c, read) ==
    /\ cpc[c] = "command"
    /\ Len(read.bytes) <= CommandBufLen
    /\ cmd_read' = [cmd_read EXCEPT ![c] = read]
    /\ IF read.res # "ok"
       THEN /\ Close(c, get_command_response(read))
            /\ command' = command
       ELSE LET parsed == from_bytes(read.bytes)
            IN  IF parsed.res = "Ok"
                THEN /\ cpc' = [cpc EXCEPT ![c] = "dispatch"]
                     /\ command' = [command EXCEPT ![c] = parsed.command]
                     /\ out' = out
                ELSE /\ IF parsed.res = "Err" THEN Close(c, RESPONSE_ERROR_COMMAND) ELSE Panic(c)
                     /\ command' = command
    /\ UNCHANGED <<aux_vars, config, peer_ip, hs_read, connects, werr, stats_out>>
    /\ UNCHANGED <<stop_event, listening, stats_vars, uds, relay_vars, pump_vars>>

\* a bug: TEST is answered with the token twice
DispatchTest_twice(c, wok) ==
    /\ cpc[c] = "dispatch"
    /\ command[c].kind = "Test"
    /\ IF wok
       THEN /\ cpc' = [cpc EXCEPT ![c] = "closed"]
            /\ out' = [out EXCEPT ![c] = @ \o <<RESPONSE_OK, RESPONSE_OK>>]
       ELSE Panic(c)
    /\ UNCHANGED <<aux_vars, conn_vars, stop_event, listening, stats_vars, command, uds, relay_vars, pump_vars>>

\* Command::Test: write_all(Response::Ok).await.unwrap(), shutdown
\* (wok: the write succeeded)
DispatchTest(c, wok) ==
    /\ cpc[c] = "dispatch"
    /\ command[c].kind = "Test"
    /\ IF wok THEN Close(c, RESPONSE_OK) ELSE Panic(c)
    /\ UNCHANGED <<aux_vars, conn_vars, stop_event, listening, stats_vars, command, uds, relay_vars, pump_vars>>

\* u64 Display: the decimal digits, as bytes
RECURSIVE to_decimal(_)
to_decimal(n) == IF n < 10 THEN <<48 + n>> ELSE to_decimal(n \div 10) \o <<48 + (n % 10)>>

\* a bug: the first two fields are swapped
format_stats_swapped(concurrent, total, sent, recv) ==
    to_decimal(total) \o <<59>> \o to_decimal(concurrent) \o <<59>>
        \o to_decimal(sent) \o <<59>> \o to_decimal(recv)
\* format!("{};{};{};{}", concurrent, globals, sent, recv)
format_stats(concurrent, total, sent, recv) ==
    to_decimal(concurrent) \o <<59>> \o to_decimal(total) \o <<59>>
        \o to_decimal(sent) \o <<59>> \o to_decimal(recv)

\* !allow.is_empty() && (!allow.contains(&ip) || secret != config.secret)
stats_forbidden(cfg, ip, secret) ==
    cfg.allow # {} /\ (ip \notin cfg.allow \/ secret # cfg.secret)

\* Command::Stats: FORBIDDEN is written when the check fails, and the
\* counters line is written in both cases; a write_all that returns Err ends
\* the arm (wfail: which write fails, 0 for none)
DispatchStats(c, wfail) ==
    LET forbidden == stats_forbidden(config, peer_ip[c], command[c].arg)
    IN  /\ cpc[c] = "dispatch"
        /\ command[c].kind = "Stats"
        /\ wfail \in 0..(IF forbidden THEN 2 ELSE 1)
        /\ cpc' = [cpc EXCEPT ![c] = "closed"]
        /\ out' = [out EXCEPT ![c] =
                      @ \o (IF forbidden /\ wfail # 1 THEN <<RESPONSE_FORBIDDEN>> ELSE <<>>)
                        \o (IF wfail = 0 THEN <<"STATS_LINE">> ELSE <<>>)]
        /\ stats_out' = [stats_out EXCEPT ![c] =
                            IF wfail = 0
                            THEN format_stats(concurrent_connections, total_connections,
                                              sent_bytes, recv_bytes)
                            ELSE @]
        /\ werr' = [werr EXCEPT ![c] = wfail # 0]
        /\ UNCHANGED <<aux_vars, config, peer_ip, hs_read, cmd_read, connects>>
        /\ UNCHANGED <<stop_event, listening, stats_vars, command, uds, relay_vars, pump_vars>>

\* Command::Unknown
DispatchUnknown(c) ==
    /\ cpc[c] = "dispatch"
    /\ command[c].kind = "Unknown"
    /\ Close(c, RESPONSE_ERROR_COMMAND)
    /\ UNCHANGED <<aux_vars, conn_vars, stop_event, listening, stats_vars, command, uds, relay_vars, pump_vars>>

\* ---- RelayConnection::run (relay.rs), up to the start of the pumps ----
\* Command::Open: RelayConnection::new, then the peer address is taken
DispatchOpen(c, peer_ok) ==
    /\ cpc[c] = "dispatch"
    /\ command[c].kind = "Open"
    /\ IF peer_ok
       THEN /\ cpc' = [cpc EXCEPT ![c] = "get_ticket"]
            /\ out' = out
       ELSE Close(c, "")
    /\ UNCHANGED <<aux_vars, conn_vars, stop_event, listening, stats_vars, command, uds, relay_vars, pump_vars>>

\* execute_command: None for "close" and for every other directive
execute_command(host) == "None"

\* a bug: an error of get_ticket is taken for a reply
is_ok_always(reply) == TRUE

\* if let Ok(response) = self.udsapi.get_ticket(...).await
is_ok(reply) == reply.ok

\* udsapi.get_ticket(&self.ticket, &self.src), the ticket being the one of
\* the command; a '#' host runs execute_command,
\* which returns None, and run goes on with the reply as an address
GetTicket(c, reply) ==
    /\ cpc[c] = "get_ticket"
    /\ uds' = [uds EXCEPT ![c] = Append(@, get_ticket(command[c].arg, src_of(peer_ip[c])))]
    /\ IF is_ok(reply) /\ ~(starts_with_hash(reply.host) /\ execute_command(reply.host) # "None")
       THEN /\ cpc' = [cpc EXCEPT ![c] = "connect"]
            /\ uds_response' = [uds_response EXCEPT ![c] = reply]
            /\ notify_ticket' = [notify_ticket EXCEPT ![c] = reply.notify]
            /\ out' = out
       ELSE /\ Close(c, "")
            /\ UNCHANGED <<uds_response, notify_ticket>>
    /\ UNCHANGED <<aux_vars, conn_vars, stop_event, listening, stats_vars, command, local_stats,
                   local_tasks_stopper, events, pump_vars>>

\* a bug: the session is counted as concurrent as soon as the backend is connected
Connect_counts(c, ok, wok) ==
    /\ cpc[c] = "connect"
    /\ ok => ~starts_with_hash(uds_response[c].host)
    /\ connects' = [connects EXCEPT ![c] = @ + 1]
    /\ UNCHANGED <<aux_vars, config, peer_ip, hs_read, cmd_read, werr, stats_out>>
    /\ IF ok
       THEN /\ cpc' = [cpc EXCEPT ![c] = "write_ok"]
            /\ out' = out
       ELSE IF wok THEN Close(c, RESPONSE_ERROR_CONNECT) ELSE Panic(c)
    /\ concurrent_connections' = add_concurrent_connection(concurrent_connections)
    /\ UNCHANGED <<stop_event, listening, total_connections, sent_bytes, recv_bytes,
                   command, uds, relay_vars, pump_vars>>

\* a bug: a failed connect is tried again
Connect_retries(c, ok, wok) ==
    /\ cpc[c] = "connect"
    /\ ok => ~starts_with_hash(uds_response[c].host)
    /\ connects' = [connects EXCEPT ![c] = @ + 1]
    /\ UNCHANGED <<aux_vars, config, peer_ip, hs_read, cmd_read, werr, stats_out>>
    /\ IF ok
       THEN /\ cpc' = [cpc EXCEPT ![c] = "write_ok"]
            /\ out' = out
       ELSE UNCHANGED <<cpc, out>>
    /\ UNCHANGED <<stop_event, listening, stats_vars, command, uds, relay_vars, pump_vars>>

\* TcpStream::connect(server); on Err, write_all(ConnectError).await.unwrap()
\* (wok: the write succeeded; a failed write panics the task).  A directive is
\* no host name, so connecting to it fails.
Connect(c, ok, wok) ==
    /\ cpc[c] = "connect"
    /\ ok => ~starts_with_hash(uds_response[c].host)
    /\ connects' = [connects EXCEPT ![c] = @ + 1]
    /\ UNCHANGED <<aux_vars, config, peer_ip, hs_read, cmd_read, werr, stats_out>>
    /\ IF ok
       THEN /\ cpc' = [cpc EXCEPT ![c] = "write_ok"]
            /\ out' = out
       ELSE IF wok THEN Close(c, RESPONSE_ERROR_CONNECT) ELSE Panic(c)
    /\ UNCHANGED <<stop_event, listening, stats_vars, command, uds, relay_vars, pump_vars>>

\* a bug: the session goes on without OK having been written
WriteOk_silent(c, wok) ==
    /\ cpc[c] = "write_ok"
    /\ IF wok
       THEN /\ cpc' = [cpc EXCEPT ![c] = "start"]
            /\ out' = out
       ELSE Panic(c)
    /\ UNCHANGED <<aux_vars, conn_vars, stop_event, listening, stats_vars, command, uds, relay_vars,
                   pump_vars>>

\* client_stream.write_all(Response::Ok).await.unwrap(): a failed write
\* panics the task
WriteOk(c, wok) ==
    /\ cpc[c] = "write_ok"
    /\ IF wok
       THEN /\ cpc' = [cpc EXCEPT ![c] = "start"]
            /\ out' = [out EXCEPT ![c] = Append(@, RESPONSE_OK)]
       ELSE Panic(c)
    /\ UNCHANGED <<aux_vars, conn_vars, stop_event, listening, stats_vars, command, uds, relay_vars,
                   pump_vars>>

\* the two splits, add_concurrent_connection, Event::new and the two
\* tokio::task::spawn
PumpStart(c) ==
    /\ cpc[c] = "start"
    /\ cpc' = [cpc EXCEPT ![c] = "waiting"]
    /\ concurrent_connections' = add_concurrent_connection(concurrent_connections)
    /\ events' = [events EXCEPT ![c] = Append(@, "inc")]
    /\ local_tasks_stopper' = [local_tasks_stopper EXCEPT ![c] = FALSE]
    /\ ppc' = [ppc EXCEPT ![c] = [p \in Pumps |-> "select"]]
    /\ UNCHANGED <<aux_vars, conn_vars, stop_event, listening, total_connections, sent_bytes, recv_bytes,
                   command, out, uds, uds_response, notify_ticket, local_stats,
                   buf, pending, src_read, dst_written>>

\* ---- the pump tasks (relay.rs) ----
\* the counter a pump adds to: server_to_client counts sent, client_to_server recv
add_bytes(st, p, n) ==
    IF p = "server_to_client"
    THEN [st EXCEPT !.sent_bytes = add_send_bytes(@, n)]
    ELSE [st EXCEPT !.recv_bytes = add_recv_bytes(@, n)]

\* a bug: the pump does not watch the process stop event
PumpStop_local_only(c, p) ==
    /\ ppc[c][p] = "select"
    /\ local_tasks_stopper[c]
    /\ ppc' = [ppc EXCEPT ![c][p] = "done"]
    /\ UNCHANGED <<aux_vars, conn_vars, stop_event, listening, stats_vars, cpc, command, out, uds, relay_vars,
                   buf, pending, src_read, dst_written>>

\* a bug: the sessions share one local event
PumpStop_any_session(c, p) ==
    /\ ppc[c][p] = "select"
    /\ stop_event \/ \E d \in Conns : local_tasks_stopper[d]
    /\ ppc' = [ppc EXCEPT ![c][p] = "done"]
    /\ UNCHANGED <<aux_vars, conn_vars, stop_event, listening, stats_vars, cpc, command, out, uds, relay_vars,
                   buf, pending, src_read, dst_written>>

\* select!: global_stopper or local_stopper is ready, break
PumpStop(c, p) ==
    /\ ppc[c][p] = "select"
    /\ stop_event \/ local_tasks_stopper[c]
    /\ ppc' = [ppc EXCEPT ![c][p] = "done"]
    /\ UNCHANGED <<aux_vars, conn_vars, stop_event, listening, stats_vars, cpc, command, out, uds, relay_vars,
                   buf, pending, src_read, dst_written>>

\* a bug: the chunk is written without being counted
PumpRead_uncounted(c, p, chunk) ==
    /\ ppc[c][p] = "select"
    /\ sent_bytes + recv_bytes + Len(chunk) <= MaxBytes
    /\ buf' = [buf EXCEPT ![c][p] = read_buf(@, chunk)]
    /\ src_read' = [src_read EXCEPT ![c][p] = @ \o chunk]
    /\ UNCHANGED <<sent_bytes, recv_bytes, local_stats>>
    /\ pending' = [pending EXCEPT ![c][p] = Len(chunk)]
    /\ ppc' = [ppc EXCEPT ![c][p] = "writing"]
    /\ UNCHANGED <<aux_vars, conn_vars, stop_event, listening, total_connections, concurrent_connections,
                   cpc, command, out, uds, uds_response, notify_ticket,
                   local_tasks_stopper, events, dst_written>>

\* select!: read_buf returns Ok(n), n > 0: both stats are added, then
\* write_all(&buf[..n]) is awaited
PumpRead(c, p, chunk) ==
    /\ ppc[c][p] = "select"
    /\ sent_bytes + recv_bytes + Len(chunk) <= MaxBytes
    /\ buf' = [buf EXCEPT ![c][p] = read_buf(@, chunk)]
    /\ src_read' = [src_read EXCEPT ![c][p] = @ \o chunk]
    /\ sent_bytes' = add_bytes([sent_bytes |-> sent_bytes, recv_bytes |-> recv_bytes],
                               p, Len(chunk)).sent_bytes
    /\ recv_bytes' = add_bytes([sent_bytes |-> sent_bytes, recv_bytes |-> recv_bytes],
                               p, Len(chunk)).recv_bytes
    /\ local_stats' = [local_stats EXCEPT ![c] = add_bytes(@, p, Len(chunk))]
    /\ pending' = [pending EXCEPT ![c][p] = Len(chunk)]
    /\ ppc' = [ppc EXCEPT ![c][p] = "writing"]
    /\ UNCHANGED <<aux_vars, conn_vars, stop_event, listening, total_connections, concurrent_connections,
                   cpc, command, out, uds, uds_response, notify_ticket,
                   local_tasks_stopper, events, dst_written>>

\* select!: read_buf returns Ok(0) or an error, break
PumpReadEnd(c, p) ==
    /\ ppc[c][p] = "select"
    /\ ppc' = [ppc EXCEPT ![c][p] = "done"]
    /\ UNCHANGED <<aux_vars, conn_vars, stop_event, listening, stats_vars, cpc, command, out, uds, relay_vars,
                   buf, pending, src_read, dst_written>>

\* write_all(&buf[..n]) returns: Ok, back to the select!; Err after k < n
\* bytes went out, break
PumpWrite(c, p, ok, k) ==
    /\ ppc[c][p] = "writing"
    /\ IF ok THEN k = pending[c][p] ELSE k < pending[c][p]
    /\ dst_written' = [dst_written EXCEPT ![c][p] = @ \o buf_slice(buf[c][p], k)]
    /\ pending' = [pending EXCEPT ![c][p] = 0]
    /\ ppc' = [ppc EXCEPT ![c][p] = IF ok THEN "select" ELSE "done"]
    /\ UNCHANGED <<aux_vars, conn_vars, stop_event, listening, stats_vars, cpc, command, out, uds, relay_vars,
                   buf, src_read>>

\* ---- RelayConnection::run, after the spawns ----
\* select! on the two JoinHandles: one task completed; local_tasks_stopper.set()
RunSelect(c) ==
    /\ cpc[c] = "waiting"
    /\ \E p \in Pumps : ppc[c][p] = "done"
    /\ local_tasks_stopper' = [local_tasks_stopper EXCEPT ![c] = Event_set(@)]
    /\ cpc' = [cpc EXCEPT ![c] = "sub"]
    /\ UNCHANGED <<aux_vars, conn_vars, stop_event, listening, stats_vars, command, out, uds, uds_response,
                   notify_ticket, local_stats, events, pump_vars>>

\* a bug: notify_end is called before sub_concurrent_connection
RunSub_after_notify(c) ==
    /\ cpc[c] = "sub"
    /\ concurrent_connections' = sub_concurrent_connection(concurrent_connections)
    /\ events' = [events EXCEPT ![c] = @ \o <<"notify_end", "dec">>]
    /\ IF notify_ticket[c] # <<>>
       THEN /\ uds' = [uds EXCEPT ![c] = Append(@, notify_end(command[c].arg,
                           local_stats[c].sent_bytes, local_stats[c].recv_bytes))]
            /\ notify_ticket' = [notify_ticket EXCEPT ![c] = <<>>]
       ELSE UNCHANGED <<uds, notify_ticket>>
    /\ cpc' = [cpc EXCEPT ![c] = "closed"]
    /\ UNCHANGED <<aux_vars, conn_vars, stop_event, listening, total_connections, sent_bytes, recv_bytes,
                   command, out, uds_response, local_stats,
                   local_tasks_stopper, pump_vars>>

\* self.global_stats.sub_concurrent_connection()
RunSub(c) ==
    /\ cpc[c] = "sub"
    /\ concurrent_connections' = sub_concurrent_connection(concurrent_connections)
    /\ events' = [events EXCEPT ![c] = Append(@, "dec")]
    /\ cpc' = [cpc EXCEPT ![c] = "notify"]
    /\ UNCHANGED <<aux_vars, conn_vars, stop_event, listening, total_connections, sent_bytes, recv_bytes,
                   command, out, uds, uds_response, notify_ticket, local_stats,
                   local_tasks_stopper, pump_vars>>

\* a bug: the report goes out whatever the notify ticket
must_notify_always(ticket) == TRUE
\* RelayConnection::notify_end: the report goes out iff notify_ticket is not empty
must_notify(ticket) == ticket # <<>>

\* self.notify_end().await, then run returns
NotifyEnd(c) ==
    /\ cpc[c] = "notify"
    /\ events' = [events EXCEPT ![c] = Append(@, "notify_end")]
    /\ IF must_notify(notify_ticket[c])
       THEN /\ uds' = [uds EXCEPT ![c] = Append(@, notify_end(command[c].arg,
                           local_stats[c].sent_bytes, local_stats[c].recv_bytes))]
            /\ notify_ticket' = [notify_ticket EXCEPT ![c] = <<>>]
       ELSE UNCHANGED <<uds, notify_ticket>>
    /\ cpc' = [cpc EXCEPT ![c] = "closed"]
    /\ UNCHANGED <<aux_vars, conn_vars, stop_event, listening, stats_vars, command, out, uds_response,
                   local_stats, local_tasks_stopper, pump_vars>>

\* ---- Event (event.rs), the handles of the process event ----
\* Clone::clone: a new waker_id on the same state
Clone(h) ==
    /\ handle[h] = "alive"
    /\ EVENT_ID < MaxHandles
    /\ handle' = [handle EXCEPT ![EVENT_ID] = "alive"]
    /\ EVENT_ID' = EVENT_ID + 1
    /\ UNCHANGED <<wakers, polled, woken, notified, set_pc, awakers, set_calls, set_ok>>
    /\ UNCHANGED <<main_vars, codec_vars, conn_vars, stop_event, listening, stats_vars, cpc, command, out,
                   uds, relay_vars, pump_vars>>

\* Future::poll, under the lock: Ready if the value is set, else the waker
\* is inserted under the handle's waker_id and the poll is Pending
Poll(h) ==
    /\ handle[h] = "alive"
    /\ set_pc[h] = "idle"
    /\ polled[h] # "ready"
    /\ IF poll_ready(stop_event)
       THEN /\ polled' = [polled EXCEPT ![h] = "ready"]
            /\ wakers' = wakers
       ELSE /\ wakers' = wakers_insert(wakers, h, Waker(h))
            /\ polled' = [polled EXCEPT ![h] = "pending"]
    /\ notified' = [notified EXCEPT ![h] = FALSE]
    /\ UNCHANGED <<EVENT_ID, handle, woken, set_pc, awakers, set_calls, set_ok>>
    /\ UNCHANGED <<main_vars, codec_vars, conn_vars, stop_event, listening, stats_vars, cpc, command, out,
                   uds, relay_vars, pump_vars>>

\* a bug: the wakers are woken inside the block that holds the lock
Set_wakes_locked(h) ==
    /\ handle[h] = "alive"
    /\ set_pc[h] = "idle"
    /\ set_calls < MaxSets
    /\ set_calls' = set_calls + 1
    /\ IF stop_event
       THEN /\ set_ok' = set_ok + 1
            /\ UNCHANGED <<stop_event, wakers, awakers, set_pc, woken, notified>>
       ELSE /\ stop_event' = Event_set(stop_event)
            /\ woken' = [w \in Ids |-> IF w \in drained(wakers) THEN woken[w] + 1 ELSE woken[w]]
            /\ notified' = [w \in Ids |-> (w \in drained(wakers)) \/ notified[w]]
            /\ awakers' = awakers
            /\ wakers' = wakers_after_drain(wakers)
            /\ set_pc' = [set_pc EXCEPT ![h] = "waking"]
            /\ set_ok' = set_ok
    /\ UNCHANGED <<EVENT_ID, handle, polled>>
    /\ UNCHANGED <<main_vars, codec_vars, conn_vars, listening, stats_vars, cpc, command, out,
                   uds, relay_vars, pump_vars>>

\* Event::set, the block under the lock: return Ok(()) if the value is set,
\* else set it and drain the wakers into awakers
Set(h) ==
    /\ handle[h] = "alive"
    /\ set_pc[h] = "idle"
    /\ set_calls < MaxSets
    /\ set_calls' = set_calls + 1
    /\ IF stop_event
       THEN /\ set_ok' = set_ok + 1
            /\ UNCHANGED <<stop_event, wakers, awakers, set_pc>>
       ELSE /\ stop_event' = Event_set(stop_event)
            /\ awakers' = [awakers EXCEPT ![h] = drained(wakers)]
            /\ wakers' = wakers_after_drain(wakers)
            /\ set_pc' = [set_pc EXCEPT ![h] = "waking"]
            /\ set_ok' = set_ok
    /\ UNCHANGED <<EVENT_ID, handle, polled, woken, notified>>
    /\ UNCHANGED <<main_vars, codec_vars, conn_vars, listening, stats_vars, cpc, command, out,
                   uds, relay_vars, pump_vars>>

\* Event::set, out of the lock: for waker in awakers { waker.wake() }
Wake(h, w) ==
    /\ set_pc[h] = "waking"
    /\ w \in awakers[h]
    /\ awakers' = [awakers EXCEPT ![h] = @ \ {w}]
    /\ woken' = [woken EXCEPT ![w] = @ + 1]
    /\ notified' = [notified EXCEPT ![w] = TRUE]
    /\ UNCHANGED <<EVENT_ID, handle, wakers, polled, set_pc, set_calls, set_ok>>
    /\ UNCHANGED <<main_vars, codec_vars, conn_vars, stop_event, listening, stats_vars, cpc, command, out,
                   uds, relay_vars, pump_vars>>

\* Event::set: the loop is over, Ok(())
SetReturn(h) ==
    /\ set_pc[h] = "waking"
    /\ awakers[h] = {}
    /\ set_pc' = [set_pc EXCEPT ![h] = "idle"]
    /\ set_ok' = set_ok + 1
    /\ UNCHANGED <<EVENT_ID, handle, wakers, polled, woken, notified, awakers, set_calls>>
    /\ UNCHANGED <<main_vars, codec_vars, conn_vars, stop_event, listening, stats_vars, cpc, command, out,
                   uds, relay_vars, pump_vars>>

\* Drop::drop: the handle's own entry leaves the map
Drop(h) ==
    /\ handle[h] = "alive"
    /\ set_pc[h] = "idle"
    /\ handle' = [handle EXCEPT ![h] = "dropped"]
    /\ wakers' = wakers_remove(wakers, h)
    /\ UNCHANGED <<EVENT_ID, polled, woken, notified, set_pc, awakers, set_calls, set_ok>>
    /\ UNCHANGED <<main_vars, codec_vars, conn_vars, stop_event, listening, stats_vars, cpc, command, out,
                   uds, relay_vars, pump_vars>>

\* ---- Command (types.rs): Display and FromStr applied one after the other ----
\* command.to_string(), as in the log line of get_command
Format ==
    /\ enc_command # No_command
    /\ enc_text = <<>>
    /\ enc_text' = fmt(enc_command)
    /\ UNCHANGED <<enc_command, dec_result>>
    /\ UNCHANGED <<main_vars, event_vars, conn_vars, stop_event, listening, stats_vars, cpc, command, out,
                   uds, relay_vars, pump_vars>>

\* Command::from_str(&text)
Parse ==
    /\ enc_text # <<>>
    /\ dec_result = No_result
    /\ dec_result' = from_str(enc_text)
    /\ UNCHANGED <<enc_command, enc_text>>
    /\ UNCHANGED <<main_vars, event_vars, conn_vars, stop_event, listening, stats_vars, cpc, command, out,
                   uds, relay_vars, pump_vars>>

\* ---- main.rs: after the signal, wait for the sessions and the tunnel task ----
\* the seconds of timeout(Duration::from_secs(8), ...)
DrainBudget == 8

\* while stats.get_concurrent_connections() > 0 { sleep(1 s) }: the test
DrainCheck ==
    /\ supervisor = "drain"
    /\ supervisor' = IF concurrent_connections > 0 THEN "sleep" ELSE "join"
    /\ UNCHANGED <<event_vars, codec_vars, drain_elapsed, conn_vars, stop_event, listening,
                   stats_vars, cpc, command, out, uds, relay_vars, pump_vars>>

\* the sleep of one second ends within the 8 s
DrainSleep ==
    /\ supervisor = "sleep"
    /\ drain_elapsed < DrainBudget
    /\ drain_elapsed' = drain_elapsed + 1
    /\ supervisor' = "drain"
    /\ UNCHANGED <<event_vars, codec_vars, conn_vars, stop_event, listening,
                   stats_vars, cpc, command, out, uds, relay_vars, pump_vars>>

\* the 8 s end while the loop sleeps: timeout gives Err(Elapsed), expect panics
DrainTimeout ==
    /\ supervisor = "sleep"
    /\ drain_elapsed >= DrainBudget - 1
    /\ drain_elapsed' = DrainBudget
    /\ supervisor' = "panicked"
    /\ UNCHANGED <<event_vars, codec_vars, conn_vars, stop_event, listening,
                   stats_vars, cpc, command, out, uds, relay_vars, pump_vars>>

\* timeout(8 s, tunnel_task): the task of TunnelServer::run has ended
JoinDone ==
    /\ supervisor = "join"
    /\ ~listening
    /\ supervisor' = "exit"
    /\ UNCHANGED <<event_vars, codec_vars, drain_elapsed, conn_vars, stop_event, listening,
                   stats_vars, cpc, command, out, uds, relay_vars, pump_vars>>

\* the 8 s end while TunnelServer::run is still in its loop: expect panics
JoinTimeout ==
    /\ supervisor = "join"
    /\ listening
    /\ supervisor' = "panicked"
    /\ UNCHANGED <<event_vars, codec_vars, drain_elapsed, conn_vars, stop_event, listening,
                   stats_vars, cpc, command, out, uds, relay_vars, pump_vars>>

\* a step of the program, its inputs drawn from I
NextFor(I) ==
    \/ SetStop
    \/ ListenerStop
    \/ \E c \in I.conns, ip \in I.ips : Accept(c, ip)
    \/ \E c \in I.conns : ProcessStart(c)
    \/ \E c \in I.conns, read \in I.handshakes : Handshake(c, read)
    \/ \E c \in I.conns, ok \in BOOLEAN : Upgrade(c, ok)
    \/ \E c \in I.conns, read \in I.commands : GetCommand(c, read)
    \/ \E c \in I.conns, wok \in BOOLEAN : DispatchTest(c, wok)
    \/ \E c \in I.conns, wfail \in 0..2 : DispatchStats(c, wfail)
    \/ \E c \in I.conns : DispatchUnknown(c)
    \/ \E c \in I.conns, peer_ok \in BOOLEAN : DispatchOpen(c, peer_ok)
    \/ \E c \in I.conns, reply \in I.replies : GetTicket(c, reply)
    \/ \E c \in I.conns, ok \in BOOLEAN, wok \in BOOLEAN : Connect(c, ok, wok)
    \/ \E c \in I.conns, wok \in BOOLEAN : WriteOk(c, wok)
    \/ \E c \in I.conns : PumpStart(c)
    \/ \E c \in I.conns, p \in Pumps : PumpStop(c, p)
    \/ \E c \in I.conns, p \in Pumps, chunk \in Chunks : PumpRead(c, p, chunk)
    \/ \E c \in I.conns, p \in Pumps : PumpReadEnd(c, p)
    \/ \E c \in I.conns, p \in Pumps, ok \in BOOLEAN, k \in 0..MaxChunk : PumpWrite(c, p, ok, k)
    \/ \E c \in I.conns : RunSelect(c)
    \/ \E c \in I.conns : RunSub(c)
    \/ \E c \in I.conns : NotifyEnd(c)

Next == NextFor(SpecInputs)

ProtoNext == NextFor(ProtoInputs)

Spec == Init /\ [][Next]_vars

\* The executor runs a task that can run; an HTTP request to the authorizer
\* ends within uds_timeout; a write to a socket ends, with Ok or Err; select!
\* polls its branches in random order, so a branch that is ready again and
\* again is taken.
Fairness ==
    \A c \in Conns :
        /\ WF_vars(RunSelect(c))
        /\ WF_vars(RunSub(c))
        /\ WF_vars(NotifyEnd(c))
        /\ \A p \in Pumps :
            /\ SF_vars(PumpStop(c, p))
            /\ WF_vars(\E ok \in BOOLEAN, k \in 0..MaxChunk : PumpWrite(c, p, ok, k))

\* the sessions of LiveSpec: the connections get the handshake and one frame
\* of each command, the authorizer refuses or gives a backend and a notify
\* ticket
LiveInputs ==
    [conns |-> Conns,
     ips |-> {"ip1"},
     handshakes |-> HandshakeReads({HANDSHAKE_V1}, {}),
     commands |-> {ReadOk(COMMAND_OPEN \o Ticket), ReadOk(COMMAND_TEST),
                   ReadOk(COMMAND_STATS \o Secret), ReadOk(InvalidCommand)},
     replies |-> {No_response, [ok |-> TRUE, host |-> "backend", notify |-> NotifyTicket]}]

LiveNext == NextFor(LiveInputs)

LiveSpec == Init /\ [][LiveNext]_vars /\ Fairness

\* one connection, with every configuration, handshake and command frame
ProtoSpec == ProtoInit /\ [][ProtoNext]_vars

\* the listener and one connection
ServeInputs == [SpecInputs EXCEPT !.conns = {1}]

ServeNext == NextFor(ServeInputs)

\* The executor runs a task that can run, and select! takes a branch that
\* stays ready.  Of the waits of a connection task, the handshake read and
\* the command read are under timeout(), the requests to the authorizer under
\* uds_timeout, and writes and the connect to the backend end with Ok or Err.
\* acceptor.accept(stream).await is under no deadline: it ends when the
\* client makes it end, so it gets no fairness.
ServeFairness ==
    /\ WF_vars(ListenerStop)
    /\ \A c \in ServeInputs.conns :
        /\ WF_vars(ProcessStart(c))
        /\ WF_vars(\E read \in ServeInputs.handshakes : Handshake(c, read))
        /\ WF_vars(\E read \in ServeInputs.commands : GetCommand(c, read))
        /\ WF_vars(\E wok \in BOOLEAN : DispatchTest(c, wok))
        /\ WF_vars(\E wfail \in 0..2 : DispatchStats(c, wfail))
        /\ WF_vars(DispatchUnknown(c))
        /\ WF_vars(\E peer_ok \in BOOLEAN : DispatchOpen(c, peer_ok))

ServeLiveSpec == Init /\ [][ServeNext]_vars /\ ServeFairness

\* the process event alone: its handles are cloned, polled, set and dropped
\* by tasks that run in any order
EventNext ==
    \/ \E h \in Ids : Clone(h)
    \/ \E h \in Ids : Poll(h)
    \/ \E h \in Ids : Set(h)
    \/ \E h \in Ids, w \in Ids : Wake(h, w)
    \/ \E h \in Ids : SetReturn(h)
    \/ \E h \in Ids : Drop(h)

EventSpec == Init /\ [][EventNext]_vars

\* a set() that has started goes on to its end, and the runtime polls a task
\* that was woken
EventFairness ==
    \A h \in Ids :
        /\ WF_vars(\E w \in Ids : Wake(h, w))
        /\ WF_vars(SetReturn(h))
        /\ WF_vars(notified[h] /\ Poll(h))

EventLiveSpec == Init /\ [][EventNext]_vars /\ EventFairness

\* the Command values given to Display: Open and Stats with payloads that
\* differ in one character, Test and Unknown
Alphanumerics == {48, 57, 65, 90, 97, 122}
Commands ==
    {Open(With(Ticket, i, b)) : i \in 1..TICKET_LENGTH, b \in Alphanumerics}
    \cup {Stats(With(Secret, i, b)) : i \in 1..SECRET_LENGTH, b \in Alphanumerics}
    \cup {Test, Unknown}

CodecInit ==
    /\ InitConnections
    /\ InitEvent
    /\ InitMain
    /\ total_connections = 0
    /\ concurrent_connections = 0
    /\ sent_bytes = 0
    /\ recv_bytes = 0
    /\ config = [allow |-> {}, secret |-> <<>>]
    /\ enc_command \in Commands
    /\ enc_text = <<>>
    /\ dec_result = No_result

CodecNext == Format \/ Parse

CodecSpec == CodecInit /\ [][CodecNext]_vars

\* ---- helpers of the properties ----
IsPrefix(s, t) == Len(s) <= Len(t) /\ \A i \in 1..Len(s) : s[i] = t[i]
Count(s, x) == Cardinality({i \in 1..Len(s) : s[i] = x})
RECURSIVE SumOver(_, _)
SumOver(f, S) == IF S = {} THEN 0 ELSE LET c == CHOOSE x \in S : TRUE IN f[c] + SumOver(f, S \ {c})
NotifyEndRequests(c) == Cardinality({i \in 1..Len(uds[c]) : uds[c][i].op = "notify_end"})
\* the session's run is between add_concurrent_connection and sub_concurrent_connection
Live(c) == cpc[c] \in {"waiting", "sub"}
Started(c) == Count(events[c], "inc") > 0
\* ---- the properties ----

\* C1: in every state concurrent_connections is the number of relay sessions
\* between their increment (pump start) and their decrement (relay end); it is
\* never negative, and no session increments or decrements it twice; a session
\* that has ended has done both once.
C1_ConcurrentIsLiveSessions ==
    /\ concurrent_connections = Cardinality({c \in Conns : Live(c)})
    /\ concurrent_connections >= 0
    /\ \A c \in Conns :
        /\ Count(events[c], "inc") <= 1
        /\ Count(events[c], "dec") <= Count(events[c], "inc")
        /\ (cpc[c] = "closed" /\ Started(c)) => Count(events[c], "dec") = 1

\* one session is pumping while another one, ended by the process stop, has closed
C1_Witness ==
    \E c, d \in Conns :
        /\ c # d
        /\ cpc[c] = "waiting"
        /\ cpc[d] = "closed" /\ Started(d)
        /\ stop_event
        /\ concurrent_connections = 1

\* C2: total_connections counts each connection whose task has started exactly
\* once, from before its handshake read on and however it ended, and it never
\* decreases.
C2_TotalCountsEachConnectionOnce ==
    /\ [](total_connections = Cardinality({c \in Conns : cpc[c] \notin {"free", "spawned"}}))
    /\ [][total_connections' >= total_connections]_vars

\* one connection ended at the handshake, another one after a relay
C2_Witness ==
    \E c, d \in Conns :
        /\ cpc[c] = "closed" /\ out[c] = <<"TIMEOUT">> /\ command[c] = No_command
        /\ cpc[d] = "closed" /\ Started(d)
        /\ total_connections = 2

\* C3: a step of a connection that has not reached the pump start, and does not
\* reach it by this step, leaves sent_bytes, recv_bytes and
\* concurrent_connections unchanged; total_connections changes only by the
\* increment at the start of the task.
BeforePumps == {"free", "spawned", "handshake", "upgrade", "command", "dispatch",
                "get_ticket", "connect", "write_ok", "start"}

C3_NoCounterChangeBeforePumps ==
    [][\A c \in Conns :
          (cpc[c] \in BeforePumps /\ cpc'[c] # cpc[c] /\ cpc'[c] # "waiting")
          => /\ sent_bytes' = sent_bytes
             /\ recv_bytes' = recv_bytes
             /\ concurrent_connections' = concurrent_connections
             /\ total_connections' = IF cpc[c] = "spawned"
                                     THEN total_connections + 1
                                     ELSE total_connections]_vars

\* the backend connect failed while another session has relayed bytes
C3_Witness ==
    \E c, d \in Conns :
        /\ cpc[c] = "closed" /\ out[c] = <<"ERROR_CONNECT">>
        /\ Live(d) /\ sent_bytes + recv_bytes > 0
\* C4: in each direction of each session the bytes written to the destination
\* half are a prefix of the bytes read from the source half.
C4_WrittenIsPrefixOfRead ==
    \A c \in Conns, p \in Pumps : IsPrefix(dst_written[c][p], src_read[c][p])

\* C5: sent_bytes is the number of bytes the server_to_client pumps have read
\* and recv_bytes the number the client_to_server pumps have read, chunk by
\* chunk; each session's local counters hold its own share, so the global
\* totals are the sums of the local ones.
ReadLen(p) == [c \in Conns |-> Len(src_read[c][p])]

C5_BytesCountedGloballyAndLocally ==
    /\ sent_bytes = SumOver(ReadLen("server_to_client"), Conns)
    /\ recv_bytes = SumOver(ReadLen("client_to_server"), Conns)
    /\ \A c \in Conns :
        /\ local_stats[c].sent_bytes = Len(src_read[c]["server_to_client"])
        /\ local_stats[c].recv_bytes = Len(src_read[c]["client_to_server"])
    /\ sent_bytes = SumOver([c \in Conns |-> local_stats[c].sent_bytes], Conns)
    /\ recv_bytes = SumOver([c \in Conns |-> local_stats[c].recv_bytes], Conns)

\* two sessions have relayed: one read a chunk of one byte from its client, the
\* other a chunk from its backend
C5_Witness ==
    \E c, d \in Conns :
        /\ c # d
        /\ local_stats[c].recv_bytes = 1 /\ pending[c]["client_to_server"] = 1
        /\ local_stats[d].sent_bytes = 1
        /\ sent_bytes = 1 /\ recv_bytes = 1
C8_NotifyEndExactlyOnce ==
    \A c \in Conns :
        /\ NotifyEndRequests(c) <= 1
        /\ NotifyEndRequests(c) = 1
            => (Started(c) /\ uds_response[c].notify # <<>> /\ notify_ticket[c] = <<>>)
        /\ (cpc[c] = "closed" /\ Started(c) /\ uds_response[c].notify # <<>>)
            => NotifyEndRequests(c) = 1

\* a session with a notify ticket has reported; one without and a connection
\* whose backend connect failed have closed without a report
C8_Witness ==
    \E c, d \in Conns :
        /\ cpc[c] = "closed" /\ Started(c) /\ NotifyEndRequests(c) = 1
        /\ cpc[d] = "closed" /\ NotifyEndRequests(d) = 0
        /\ \/ Started(d) /\ uds_response[d].notify = <<>>
           \/ ~Started(d) /\ uds_response[d].notify # <<>>

\* C9: within a session the increment, the decrement and the call of
\* notify_end happen in this order, each at most once, and the report to the
\* authorizer is sent only after the decrement.
C9_IncDecNotifyInOrder ==
    \A c \in Conns :
        /\ IsPrefix(events[c], <<"inc", "dec", "notify_end">>)
        /\ NotifyEndRequests(c) > 0 => events[c] = <<"inc", "dec", "notify_end">>

\* a session has decremented and not yet called notify_end; another one has
\* done all three
C9_Witness ==
    \E c, d \in Conns :
        /\ events[c] = <<"inc", "dec">>
        /\ events[d] = <<"inc", "dec", "notify_end">> /\ NotifyEndRequests(d) = 1

\* C10: a session that has decremented concurrent_connections has no pump
\* still running.
C10_DecrementAfterBothPumps ==
    \A c \in Conns :
        Count(events[c], "dec") > 0 => \A p \in Pumps : ppc[c][p] = "done"

\* C11: the TLS upgrade is attempted only after a handshake read that returned
\* exactly Len(HANDSHAKE_V1) bytes, equal to HANDSHAKE_V1; when the bytes read
\* differ from it in any position, the server writes ERROR_HANDSHAKE and
\* closes, and neither starts TLS nor reads a command.
C11_UpgradeOnlyAfterExactHandshake ==
    \A c \in Conns :
        /\ cpc[c] \in {"upgrade", "command", "dispatch", "get_ticket", "connect", "write_ok",
                       "start", "waiting", "sub", "notify", "panicked"}
            => /\ hs_read[c].res = "ok"
               /\ Len(hs_read[c].bytes) = Len(HANDSHAKE_V1)
               /\ \A i \in 1..Len(HANDSHAKE_V1) : hs_read[c].bytes[i] = HANDSHAKE_V1[i]
        /\ (hs_read[c].res = "ok" /\ \E i \in 1..Len(HANDSHAKE_V1) : hs_read[c].bytes[i] # HANDSHAKE_V1[i])
            => /\ cpc[c] = "closed"
               /\ out[c] = <<"ERROR_HANDSHAKE">>
               /\ cmd_read[c] = No_read
               /\ command[c] = No_command
        /\ (cmd_read[c] # No_read \/ command[c] # No_command \/ uds[c] # <<>>)
            => hs_read[c] = ReadOk(HANDSHAKE_V1)

\* the client sent the handshake with its last byte wrong and got
\* ERROR_HANDSHAKE
C11_Witness ==
    \E c \in Conns :
        /\ hs_read[c].res = "ok"
        /\ SubSeq(hs_read[c].bytes, 1, 6) = SubSeq(HANDSHAKE_V1, 1, 6)
        /\ hs_read[c].bytes[7] # HANDSHAKE_V1[7]
        /\ cpc[c] = "closed"
        /\ out[c] = <<"ERROR_HANDSHAKE">>

C13_HandshakeIoErrorAnswersHandshakeError ==
    \A c \in Conns :
        /\ (hs_read[c].res = "ioerr") => (cpc[c] = "closed" /\ out[c] = <<"ERROR_HANDSHAKE">>)
        /\ (cmd_read[c] = No_read /\ out[c] = <<"TIMEOUT">>) => hs_read[c].res = "timeout"

\* C14: when get_command's read runs into command_timeout, the server writes
\* TIMEOUT over TLS and closes; when the read fails with another error, it
\* writes ERROR_COMMAND and closes; in both cases no command is dispatched and
\* the authorizer is not called.
C14_CommandReadFailure ==
    \A c \in Conns :
        /\ cmd_read[c].res = "timeout" => out[c] = <<"TIMEOUT">>
        /\ cmd_read[c].res = "ioerr" => out[c] = <<"ERROR_COMMAND">>
        /\ cmd_read[c].res \in {"timeout", "ioerr"}
            => /\ cpc[c] = "closed"
               /\ ~handshake_failed(hs_read[c])
               /\ command[c] = No_command
               /\ uds[c] = <<>>
               /\ connects[c] = 0

\* after the handshake and the TLS upgrade the client sent no command in time
C14_Witness ==
    \E c \in Conns :
        /\ hs_read[c] = ReadOk(HANDSHAKE_V1)
        /\ cmd_read[c].res = "timeout"
        /\ cpc[c] = "closed"
        /\ out[c] = <<"TIMEOUT">>

\* a well-formed command frame: OPEN and 48 ASCII letters or digits, TEST, or
\* STAT / INFO and 64 ASCII letters or digits
AsciiAlnum(s) == \A i \in 1..Len(s) : s[i] \in (48..57) \cup (65..90) \cup (97..122)
TagOf(f) == SubSeq(f, 1, 4)
PayloadOf(f) == SubSeq(f, 5, Len(f))
WellFormedFrame(f) ==
    /\ Len(f) >= 4
    /\ \/ TagOf(f) = <<79, 80, 69, 78>> /\ Len(PayloadOf(f)) = 48 /\ AsciiAlnum(PayloadOf(f))
       \/ f = <<84, 69, 83, 84>>
       \/ /\ TagOf(f) \in {<<83, 84, 65, 84>>, <<73, 78, 70, 79>>}
          /\ Len(PayloadOf(f)) = 64
          /\ AsciiAlnum(PayloadOf(f))

\* C15: for every command frame of 0..128 bytes that is not a well-formed OPEN,
\* TEST, STAT or INFO frame (fewer than 4 bytes, unknown tag, wrong payload
\* length, payload bytes that are not ASCII letters or digits), the server
\* answers ERROR_COMMAND and closes; the task is never aborted, and neither
\* the authorizer nor a backend is contacted.
C15_MalformedFrameAnswersCommandError ==
    \A c \in Conns :
        (cmd_read[c].res = "ok" /\ ~WellFormedFrame(cmd_read[c].bytes))
            => /\ Len(cmd_read[c].bytes) <= 128
               /\ cpc[c] \in {"dispatch", "closed"}
               /\ cpc[c] = "dispatch" => command[c].kind = "Unknown"
               /\ cpc[c] = "closed" => out[c] = <<"ERROR_COMMAND">>
               /\ uds[c] = <<>>
               /\ connects[c] = 0

\* C16: after a valid handshake and TLS upgrade, a TEST command makes the
\* server write exactly the token OK and then close; the authorizer is not
\* called and no backend connection is opened.
C16_TestAnswersOk ==
    \A c \in Conns :
        cmd_read[c] = ReadOk(<<84, 69, 83, 84>>)
            => /\ hs_read[c] = ReadOk(HANDSHAKE_V1)
               /\ command[c].kind = "Test"
               /\ cpc[c] \in {"dispatch", "closed", "panicked"}
               /\ cpc[c] = "closed" => out[c] = <<"OK">>
               /\ cpc[c] # "closed" => out[c] = <<>>
               /\ uds[c] = <<>>
               /\ connects[c] = 0

\* the client sent TEST and the connection is closed after the answer
C16_Witness ==
    \E c \in Conns :
        /\ cmd_read[c] = ReadOk(<<84, 69, 83, 84>>)
        /\ cpc[c] = "closed"
        /\ out[c] = <<"OK">>
        /\ total_connections \in {1, 947}

\* the Stats request of connection c has been answered and every write went through
StatsAnswered(c) == command[c].kind = "Stats" /\ cpc[c] = "closed" /\ ~werr[c]

\* C17: a Stats command is refused when the allow list is not empty and the
\* peer's ip is not in it or the secret differs from the configured one: the
\* only bytes written are FORBIDDEN, the connection is then closed, and the
\* counters line is never sent.
C17_RefusedStatsGetsOnlyForbidden ==
    \A c \in Conns :
        (/\ StatsAnswered(c)
         /\ config.allow # {}
         /\ (peer_ip[c] \notin config.allow \/ command[c].arg # config.secret))
            => /\ out[c] = <<"FORBIDDEN">>
               /\ stats_out[c] = <<>>

\* C18: with an empty allow list the ip check is skipped and the secret check
\* still applies: a Stats command with a wrong secret gets FORBIDDEN and no
\* counters.
C18_EmptyAllowStillChecksSecret ==
    \A c \in Conns :
        (/\ StatsAnswered(c)
         /\ config.allow = {}
         /\ command[c].arg # config.secret)
            => /\ out[c] = <<"FORBIDDEN">>
               /\ stats_out[c] = <<>>

\* the value of a string of decimal digits
RECURSIVE DecimalValue(_)
DecimalValue(s) ==
    IF s = <<>> THEN 0 ELSE DecimalValue(SubSeq(s, 1, Len(s) - 1)) * 10 + (s[Len(s)] - 48)
\* s is the decimal writing of n: digits only, no leading zero
IsDecimalOf(s, n) ==
    /\ Len(s) >= 1
    /\ \A i \in 1..Len(s) : s[i] \in 48..57
    /\ Len(s) > 1 => s[1] # 48
    /\ DecimalValue(s) = n
\* line is a;b;c;d in decimal, with nothing before, between or after
IsCountersLine(line, a, b, c, d) ==
    \E i, j, k \in 1..Len(line) :
        /\ i < j /\ j < k
        /\ {m \in 1..Len(line) : line[m] = 59} = {i, j, k}
        /\ IsDecimalOf(SubSeq(line, 1, i - 1), a)
        /\ IsDecimalOf(SubSeq(line, i + 1, j - 1), b)
        /\ IsDecimalOf(SubSeq(line, j + 1, k - 1), c)
        /\ IsDecimalOf(SubSeq(line, k + 1, Len(line)), d)

\* C19: the answer to an authorized Stats command is the single line
\* concurrent;total;sent;recv, the four counters in decimal separated by
\* semicolons with no newline at the end, and the connection is then closed;
\* the counters 749, 947, 13804, 96432 give 749;947;13804;96432.
C19_StatsLine ==
    \A c \in Conns :
        (/\ StatsAnswered(c)
         /\ config.allow = {} \/ peer_ip[c] \in config.allow
         /\ command[c].arg = config.secret)
            => /\ out[c] = <<"STATS_LINE">>
               /\ IsCountersLine(stats_out[c], concurrent_connections, total_connections,
                                 sent_bytes, recv_bytes)
               /\ (/\ concurrent_connections = 749 /\ total_connections = 947
                   /\ sent_bytes = 13804 /\ recv_bytes = 96432)
                    => stats_out[c] = <<55, 52, 57, 59, 57, 52, 55, 59, 49, 51, 56, 48, 52, 59,
                                        57, 54, 52, 51, 50>>

\* a client in the allow list sent the secret while the counters were 749,
\* 947, 13804 and 96432
C19_Witness ==
    \E c \in Conns :
        /\ StatsAnswered(c)
        /\ config.allow = {"ip1"} /\ peer_ip[c] = "ip1"
        /\ command[c].arg = config.secret
        /\ concurrent_connections = 749 /\ total_connections = 947
        /\ sent_bytes = 13804 /\ recv_bytes = 96432
        /\ Len(stats_out[c]) = 19

C21_DecodeOfEncodeIsIdentity ==
    (dec_result # No_result /\ enc_command.kind \in {"Open", "Test", "Stats"})
        => dec_result = ParseOk(enc_command)

\* C22: set() is idempotent.  The value, once true, stays true; the call that
\* finds it false sets it and drains the waiter map, which stays empty from
\* then on; a call that finds the value true changes nothing and returns Ok;
\* only the call that set the value wakes waiters, and every call that has
\* ended has returned Ok, whichever handle made it.
C22_SetIsIdempotent ==
    [][ /\ stop_event => stop_event'
        /\ stop_event' => wakers' = No_wakers
        /\ (set_calls' = set_calls + 1 /\ ~stop_event) => stop_event'
        /\ (set_calls' = set_calls + 1 /\ stop_event)
               => /\ UNCHANGED <<stop_event, wakers, woken, notified, set_pc, awakers>>
                  /\ set_ok' = set_ok + 1
        /\ \A h \in Ids : (set_pc'[h] = "waking" /\ set_pc[h] = "idle") => ~stop_event
        /\ woken' # woken => Cardinality({h \in Ids : set_pc[h] = "waking"}) = 1
        /\ (\A h \in Ids : set_pc'[h] = "idle") => set_ok' = set_calls'
      ]_vars

\* set() was called twice through two handles; the first call woke a waiter,
\* both calls have returned
C22_Witness ==
    /\ stop_event
    /\ set_calls >= 2
    /\ set_ok = set_calls
    /\ \E h \in Ids : woken[h] = 1
    /\ \A h \in Ids : set_pc[h] = "idle"

\* C23: no wake-up is lost.  No waker is woken twice; once the value is set
\* and the setting call has ended, every live handle whose last poll was
\* Pending has been woken once; and every handle whose poll was Pending
\* gets a poll that is Ready after the value is set, unless it is dropped.
C23_NoWakeupLost ==
    /\ [](\A h \in Ids : woken[h] <= 1)
    /\ [](\A h \in Ids :
            (/\ stop_event
             /\ \A s \in Ids : set_pc[s] = "idle"
             /\ handle[h] = "alive"
             /\ polled[h] = "pending") => (woken[h] = 1 /\ notified[h]))
    /\ \A h \in Ids :
          (polled[h] = "pending" /\ stop_event)
              ~> (polled[h] = "ready" \/ handle[h] = "dropped")

\* two handles polled Pending, the value was set by a third, both were woken
\* and one has been polled again
C23_Witness ==
    \E a, b \in Ids :
        /\ a # b
        /\ handle[a] = "alive" /\ handle[b] = "alive"
        /\ woken[a] = 1 /\ woken[b] = 1
        /\ polled[a] = "ready"
        /\ polled[b] = "pending"
        /\ \A s \in Ids : set_pc[s] = "idle"

\* C24: the event is level-triggered.  A poll is Ready only when the value is
\* set, and then it registers no waker; a poll made after the value is set is
\* never Pending, whichever handle is polled; a poll is Pending only when the
\* value is not set, and it leaves the handle's waker in the map.
C24_LevelTriggered ==
    [][\A h \in Ids :
          /\ (polled'[h] = "ready" /\ polled[h] # "ready")
                => (stop_event /\ wakers' = wakers /\ h \notin DOMAIN wakers')
          /\ (polled'[h] = "pending" /\ polled[h] # "pending")
                => (~stop_event /\ h \in DOMAIN wakers')
          /\ (stop_event /\ polled'[h] # polled[h]) => polled'[h] = "ready"
          /\ stop_event' => h \notin DOMAIN wakers'
      ]_vars

\* after the value was set and set() had returned, a handle that was in the
\* map and one that never was (a clone) have both been polled Ready
C24_Witness ==
    \E a, b \in Ids :
        /\ stop_event
        /\ \A s \in Ids : set_pc[s] = "idle"
        /\ polled[a] = "ready" /\ woken[a] = 0 /\ a # 0
        /\ polled[b] = "ready" /\ woken[b] = 1

\* C25: the waiter map has one entry per key, and its keys are handles that
\* are alive, whose last poll was Pending, while the value is not set; a drop
\* removes the entry of the dropped handle and no other; the map is empty
\* when no live handle is waiting and after set().
C25_WakersAreLiveWaitingHandles ==
    /\ [](/\ \A id \in DOMAIN wakers :
                /\ handle[id] = "alive"
                /\ polled[id] = "pending"
                /\ wakers[id] = Waker(id)
          /\ stop_event => wakers = No_wakers
          /\ (\A h \in Ids : handle[h] = "alive" => polled[h] # "pending")
                => wakers = No_wakers)
    /\ [][\A h \in Ids :
            (handle[h] = "alive" /\ handle'[h] = "dropped")
                => /\ DOMAIN wakers' = (DOMAIN wakers) \ {h}
                   /\ \A k \in DOMAIN wakers' : wakers'[k] = wakers[k]
         ]_vars

\* a waiting handle was dropped and its entry is gone, the entry of another
\* waiting handle is still in the map
C25_Witness ==
    \E a, b \in Ids :
        /\ ~stop_event
        /\ handle[a] = "dropped" /\ polled[a] = "pending"
        /\ handle[b] = "alive" /\ b \in DOMAIN wakers
        /\ a \notin DOMAIN wakers

\* the get_ticket requests a connection has made
GetTicketRequests(c) == {i \in 1..Len(uds[c]) : uds[c][i].op = "get_ticket"}
\* run has gone past its call of get_ticket with a reply: it is about to
\* connect, has tried to, or has answered OK to the Open command
PastGetTicket(c) ==
    \/ cpc[c] \in {"connect", "write_ok", "start", "waiting", "sub", "notify"}
    \/ connects[c] > 0
    \/ command[c].kind = "Open" /\ \E i \in 1..Len(out[c]) : out[c][i] = RESPONSE_OK

C28_EveryWaitBeforeOpenIsBounded ==
    \A c \in Conns :
        (cpc[c] = "spawned")
            ~> (cpc[c] \in {"closed", "panicked"} \/ command[c].kind = "Open")

\* the counter a pump adds to, in a Stats
counted(st, p) == IF p = "server_to_client" THEN st.sent_bytes ELSE st.recv_bytes
global_stats == [sent_bytes |-> sent_bytes, recv_bytes |-> recv_bytes]

\* C29: a pump counts a chunk before it writes it.  The step that reads n
\* bytes adds n to the global and to the local counter and writes nothing;
\* the write that follows changes no counter; when it fails the counters hold
\* the n bytes although fewer than n went out, and the pump has ended: it
\* reads no more.
C29_CountedBeforeWrite ==
    [][\A c \in Conns, p \in Pumps :
          /\ (ppc[c][p] = "select" /\ ppc'[c][p] = "writing")
                => /\ pending'[c][p] = Len(src_read'[c][p]) - Len(src_read[c][p])
                   /\ pending'[c][p] > 0
                   /\ counted(global_stats', p) = counted(global_stats, p) + pending'[c][p]
                   /\ counted(local_stats'[c], p) = counted(local_stats[c], p) + pending'[c][p]
                   /\ dst_written'[c][p] = dst_written[c][p]
          /\ (ppc[c][p] = "writing" /\ ppc'[c][p] # "writing")
                => /\ global_stats' = global_stats
                   /\ local_stats' = local_stats
                   /\ counted(local_stats[c], p) = Len(src_read[c][p])
                   /\ src_read'[c][p] = src_read[c][p]
                   /\ Len(dst_written'[c][p]) <= Len(dst_written[c][p]) + pending[c][p]
                   /\ (Len(dst_written'[c][p]) < Len(dst_written[c][p]) + pending[c][p])
                         <=> ppc'[c][p] = "done"
          /\ ppc[c][p] = "done"
                => (ppc'[c][p] = "done" /\ src_read'[c][p] = src_read[c][p])
      ]_vars

\* a write to the backend has failed with nothing written: the pump has ended,
\* the byte it read is in the global and in the local recv counter
C29_Witness ==
    \E c \in Conns :
        /\ ppc[c]["client_to_server"] = "done"
        /\ Len(src_read[c]["client_to_server"]) = 1
        /\ dst_written[c]["client_to_server"] = <<>>
        /\ local_stats[c].recv_bytes = 1
        /\ recv_bytes = 1

\* C30: the sent and recv numbers of a session's notify_end request are the
\* session's local totals from then on: no pump of the session counts a byte
\* after the request is made.
C30_NotifyEndCarriesFinalTotals ==
    \A c \in Conns :
        \A i \in 1..Len(uds[c]) :
            uds[c][i].op = "notify_end"
                => /\ uds[c][i].sent = local_stats[c].sent_bytes
                   /\ uds[c][i].recv = local_stats[c].recv_bytes

\* C31: every notify_end request of a session carries, as its ticket, the
\* notify ticket of the authorizer's reply for that session, and not the
\* ticket of the client's OPEN command.
C31_NotifyEndUsesNotifyTicket ==
    \A c \in Conns :
        \A i \in 1..Len(uds[c]) :
            uds[c][i].op = "notify_end"
                => /\ uds[c][i].ticket = uds_response[c].notify
                   /\ uds[c][i].ticket # command[c].arg

\* the reply a connection got from get_ticket is a directive
GotDirective(c) == uds_response[c].ok /\ starts_with_hash(uds_response[c].host)

\* C32: a session whose authorizer reply has a host that begins with '#'
\* makes no connect to a backend, writes neither OK nor any other token,
\* does not count as a concurrent connection, starts no pump, and has no
\* step left but the one to Closed.
C32_DirectiveClosesWithoutConnect ==
    \A c \in Conns :
        GotDirective(c)
            => /\ connects[c] = 0
               /\ out[c] = <<>>
               /\ ~Started(c)
               /\ \A p \in Pumps : ppc[c][p] = "none"
               /\ cpc[c] \in {"connect", "closed"}

\* get_ticket was called for the connection and returned an error
GetTicketFailed(c) == uds[c] # <<>> /\ ~uds_response[c].ok

\* C33: a connection whose get_ticket returned an error is closed: it has
\* made no connect to a backend, nothing was written to its client, it has
\* not been counted, has no pump, and neither called notify_end nor made any
\* request after get_ticket.
C33_TicketErrorCloses ==
    \A c \in Conns :
        GetTicketFailed(c)
            => /\ cpc[c] = "closed"
               /\ connects[c] = 0
               /\ out[c] = <<>>
               /\ events[c] = <<>>
               /\ \A p \in Pumps : ppc[c][p] = "none"
               /\ Len(uds[c]) = 1
               /\ uds[c][1].op = "get_ticket"

\* the authorizer has refused the ticket of an Open
C33_Witness ==
    \E c \in Conns :
        /\ GetTicketFailed(c)
        /\ command[c] = Open(Ticket)
        /\ cpc[c] = "closed"

\* the one connect of the connection has failed: the task has ended without
\* the session having started
ConnectFailed(c) == connects[c] > 0 /\ cpc[c] \in {"closed", "panicked"} /\ ~Started(c)

\* C34: a connection makes at most one connect to a backend.  When it fails
\* the task ends: OK is not written, nothing is counted, no pump starts and
\* notify_end is not called; the client has got ERROR_CONNECT and the
\* connection is closed, unless the write of a token failed.
C34_ConnectOnceNoRetry ==
    \A c \in Conns :
        /\ connects[c] <= 1
        /\ ConnectFailed(c)
            => /\ \A i \in 1..Len(out[c]) : out[c][i] # RESPONSE_OK
               /\ events[c] = <<>>
               /\ \A p \in Pumps : ppc[c][p] = "none"
               /\ NotifyEndRequests(c) = 0
               /\ Len(uds[c]) = 1
               /\ cpc[c] = "closed" => out[c] = <<RESPONSE_ERROR_CONNECT>>
               /\ cpc[c] = "panicked" => out[c] = <<>>
        /\ ~(connects[c] > 0 /\ cpc[c] = "connect")

\* the backend of a session with a notify ticket refused the connection
C34_Witness ==
    \E c \in Conns :
        /\ ConnectFailed(c)
        /\ connects[c] = 1
        /\ uds_response[c].host = "backend"
        /\ uds_response[c].notify = NotifyTicket
        /\ out[c] = <<RESPONSE_ERROR_CONNECT>>

\* OK was written to the client of an Open
OkWritten(c) == command[c].kind = "Open" /\ \E i \in 1..Len(out[c]) : out[c][i] = RESPONSE_OK

\* C35: OK is written for an Open only after the one connect to the backend
\* has succeeded, and it is the first and only token of the connection; the
\* session is counted, and its pumps start and relay, only when OK has been
\* written: between the write of OK and the increment nothing is counted and
\* no byte is relayed.
C35_OkBeforeIncrementAndRelay ==
    /\ \A c \in Conns :
        /\ OkWritten(c)
              => /\ connects[c] = 1
                 /\ uds_response[c].ok
                 /\ out[c] = <<RESPONSE_OK>>
        /\ (Started(c) \/ cpc[c] \in {"start", "waiting", "sub", "notify"}) => OkWritten(c)
        /\ (\E p \in Pumps : \/ ppc[c][p] # "none"
                             \/ src_read[c][p] # <<>>
                             \/ dst_written[c][p] # <<>>) => OkWritten(c)
        /\ cpc[c] = "start"
              => /\ ~Started(c)
                 /\ \A p \in Pumps : ppc[c][p] = "none" /\ dst_written[c][p] = <<>>
    /\ concurrent_connections <= Cardinality({c \in Conns : OkWritten(c)})

\* OK has been written to a client and its session is not counted yet, while
\* the other session relays
C35_Witness ==
    \E c, d \in Conns :
        /\ cpc[c] = "start"
        /\ out[c] = <<RESPONSE_OK>>
        /\ concurrent_connections = 1
        /\ cpc[d] = "waiting"
        /\ dst_written[d]["server_to_client"] # <<>>
\* ---- main and one connection ----
MainInputs == [LiveInputs EXCEPT !.conns = {1}]

MainNext ==
    \/ NextFor(MainInputs)
    \/ DrainCheck
    \/ DrainSleep
    \/ DrainTimeout
    \/ JoinDone
    \/ JoinTimeout

MainSpec == Init /\ [][MainNext]_vars

\* C36: after the signal main waits for concurrent_connections to be 0 for at
\* most the 8 s of the budget, and the wait ends, by the counter at 0 or by the
\* budget, with main going on to the rest of the shutdown (the wait for the
\* tunnel task), never with a failure.
C36_DrainExpiryProceeds ==
    /\ [](drain_elapsed <= DrainBudget)
    /\ [][(supervisor \in {"drain", "sleep"} /\ supervisor' \notin {"drain", "sleep"})
             => supervisor' = "join"]_vars

\* what the task of connection d owns: its position, streams and session
ConnState(d) ==
    <<cpc[d], command[d], out[d], uds[d], uds_response[d], notify_ticket[d],
      local_stats[d], local_tasks_stopper[d], ppc[d], buf[d], pending[d],
      src_read[d], dst_written[d], events[d], peer_ip[d], hs_read[d], cmd_read[d],
      connects[d], werr[d], stats_out[d]>>

\* C37: a step in which the task of a connection ends (it closes, with or
\* without an error answer, or panics), or in which one of its pumps ends,
\* leaves the accept loop and the process event as they were and changes
\* nothing of any other connection: their tasks, streams, sessions and pumps
\* go on from the same state.
C37_FailureEndsOnlyItsConnection ==
    [][\A c \in Conns :
          (\/ cpc[c] \notin {"closed", "panicked"} /\ cpc'[c] \in {"closed", "panicked"}
           \/ \E p \in Pumps : ppc[c][p] # "done" /\ ppc'[c][p] = "done")
          => /\ listening' = listening
             /\ stop_event' = stop_event
             /\ \A d \in Conns \ {c} : ConnState(d)' = ConnState(d)]_vars

\* the task of one connection has panicked, the accept loop is running and the
\* session of the other connection relays
C37_Witness ==
    \E c, d \in Conns :
        /\ cpc[c] = "panicked"
        /\ listening /\ ~stop_event
        /\ cpc[d] = "waiting"
        /\ \E p \in Pumps : ppc[d][p] = "writing"

\* consts.rs: the size the description gives to the buffer of a pump
BUFFER_SIZE == 1024 * 16

\* C38: the buffer of each pump keeps the length it was created with, at most
\* BUFFER_SIZE, whatever has been read, and when a write of n bytes is about to
\* be made its first n bytes are the n bytes the preceding read returned.
C38_BufferFixedAndWrittenFromReadRegion ==
    \A c \in Conns, p \in Pumps :
        /\ buf_len(buf[c][p]) = PumpBufLen
        /\ buf_len(buf[c][p]) <= BUFFER_SIZE
        /\ ppc[c][p] = "writing"
              => buf_slice(buf[c][p], pending[c][p])
                    = SubSeq(src_read[c][p], Len(src_read[c][p]) - pending[c][p] + 1,
                             Len(src_read[c][p]))

\* C39: the local event of a session is set only after one of its own pumps
\* has ended, and it stops the pumps of that session only: while the process
\* event is not set, a pump can take its stop branch only when the local event
\* of its own session is set. A step that sets the local event of a session or
\* ends one of its pumps leaves the pumps, the local event and the local
\* counters of every other session as they were.
C39_SessionsAreIndependent ==
    /\ [](\A d \in Conns :
            /\ local_tasks_stopper[d] => \E p \in Pumps : ppc[d][p] = "done"
            /\ \A p \in Pumps :
                  (ENABLED PumpStop(d, p)) => (stop_event \/ local_tasks_stopper[d]))
    /\ [][\A c \in Conns :
            (\/ local_tasks_stopper'[c] # local_tasks_stopper[c]
             \/ \E p \in Pumps : ppc[c][p] # "done" /\ ppc'[c][p] = "done")
            => \A d \in Conns \ {c} :
                  /\ ppc'[d] = ppc[d]
                  /\ local_tasks_stopper'[d] = local_tasks_stopper[d]
                  /\ local_stats'[d] = local_stats[d]]_vars

\* the local event of one session is set after one of its pumps ended, the
\* process event is not set, and both pumps of the other session, which has
\* counted bytes, are running
C39_Witness ==
    \E c, d \in Conns :
        /\ c # d
        /\ ~stop_event
        /\ local_tasks_stopper[c]
        /\ \E p \in Pumps : ppc[c][p] = "done"
        /\ cpc[d] = "waiting" /\ ~local_tasks_stopper[d]
        /\ \A p \in Pumps : ppc[d][p] \in {"select", "writing"}
        /\ local_stats[d].sent_bytes + local_stats[d].recv_bytes > 0

\* C40: a waker is woken only by a step of set() that comes after the block
\* under the lock (the value is set and the waker was drained into awakers)
\* and that touches neither the value nor the map of wakers, the state the
\* lock protects; while set() is in its loop of wakes, a handle that was woken
\* can be polled, cloned and dropped at once.
C40_WakesAreOutsideTheLock ==
    /\ [](\A h \in Ids, w \in Ids :
            (set_pc[h] = "waking" /\ handle[w] = "alive" /\ set_pc[w] = "idle" /\ notified[w])
            => /\ polled[w] # "ready" => ENABLED Poll(w)
               /\ EVENT_ID < MaxHandles => ENABLED Clone(w)
               /\ ENABLED Drop(w))
    /\ [][\A w \in Ids :
            woken'[w] # woken[w]
            => /\ stop_event /\ stop_event' = stop_event
               /\ wakers' = wakers
               /\ \E h \in Ids : /\ set_pc[h] = "waking"
                                 /\ w \in awakers[h]
                                 /\ w \notin awakers'[h]]_vars

\* set() has woken one waiter, which polled again and got Ready, and has
\* another waiter still to wake
C40_Witness ==
    \E h \in Ids, w \in Ids :
        /\ set_pc[h] = "waking"
        /\ awakers[h] # {}
        /\ woken[w] = 1
        /\ polled[w] = "ready"
====
